---- MODULE Spec2Model ----
(***************************************************************************)
(* State-machine model of web.py, the Streamlit page of the medical-ai-    *)
(* prediction repository: process-wide cached artifacts, feature-name      *)
(* normalisation, free-text numeric parsing, prediction, SHAP selection,   *)
(* the force_plot call with its TypeError fallback, PDF export and the     *)
(* display of the result.  One script run (a Streamlit rerun) is one       *)
(* request; the Python process survives across runs.                       *)
(*                                                                         *)
(* Texts are tuples of one-character strings.  A float is the record       *)
(* [m |-> mantissa, e |-> decimal exponent] with m not divisible by 10     *)
(* (zero is [m |-> 0, e |-> 0]); binary rounding of IEEE doubles is not    *)
(* represented.  The two non-ASCII catalog names are written "HCO3-" and   *)
(* "Na+".                                                                  *)
(***************************************************************************)
EXTENDS Integers, Sequences, FiniteSets, TLC

(***************************************************************************)
(* Bounds of the model.                                                    *)
(***************************************************************************)
MaxLen == 3
MaxFeatures == 2
MaxRuns == 2

(***************************************************************************)
(* Characters and texts.                                                   *)
(***************************************************************************)
Digits == {"0", "1", "2", "3", "4", "5", "6", "7", "8", "9"}

DigitVal(c) ==
    CASE c = "0" -> 0 [] c = "1" -> 1 [] c = "2" -> 2 [] c = "3" -> 3
      [] c = "4" -> 4 [] c = "5" -> 5 [] c = "6" -> 6 [] c = "7" -> 7
      [] c = "8" -> 8 [] c = "9" -> 9

DigitChar(d) ==
    CASE d = 0 -> "0" [] d = 1 -> "1" [] d = 2 -> "2" [] d = 3 -> "3"
      [] d = 4 -> "4" [] d = 5 -> "5" [] d = 6 -> "6" [] d = 7 -> "7"
      [] d = 8 -> "8" [] d = 9 -> "9"

Whitespace == {" "}

\* The characters a typed text is enumerated over: a digit, the point, the
\* exponent mark, a sign, a blank and a letter outside the grammar.
Alphabet == {"1", ".", "e", "-", " ", "a"}

\* The literal texts the specification names, valid and malformed.
ExampleTexts ==
    { <<"1", "e", "-", "3">>, <<"-", "0", ".", "9">>, <<"+", "4", "2">>,
      <<"1", "e", "2">>, <<"a", "b", "c">>, <<"1", "2", ".", "3", ".", "4">>,
      <<>>, <<" ", "5", " ">>, <<"-", "3", ".", "2", "e", "-", "1">> }

BoundedTexts == UNION { [1..n -> Alphabet] : n \in 0..MaxLen }

Texts == BoundedTexts \cup ExampleTexts

\* The texts typed into the fields of a multi-field form.
WidgetTexts == { <<>>, <<"1", "e", "2">>, <<" ", "5", " ">> }

(***************************************************************************)
(* str.strip(): leading and trailing whitespace removed.                   *)
(***************************************************************************)
RECURSIVE LStrip(_)
LStrip(t) ==
    IF t # <<>> /\ Head(t) \in Whitespace THEN LStrip(Tail(t)) ELSE t

RECURSIVE RStrip(_)
RStrip(t) ==
    IF t # <<>> /\ t[Len(t)] \in Whitespace
    THEN RStrip(SubSeq(t, 1, Len(t) - 1))
    ELSE t

Strip(t) == RStrip(LStrip(t))

(***************************************************************************)
(* _num_pattern as the automaton the expression denotes: an optional     *)
(* sign; digits with an optional point and fraction, or a point followed   *)
(* by digits; an optional exponent mark with optional sign and digits.     *)
(***************************************************************************)
Delta(s, c) ==
    CASE s = "start" /\ c \in {"+", "-"}  -> "sign"
      [] s \in {"start", "sign"} /\ c \in Digits -> "int"
      [] s \in {"start", "sign"} /\ c = "." -> "dot"
      [] s = "int" /\ c \in Digits -> "int"
      [] s = "int" /\ c = "." -> "frac"
      [] s = "dot" /\ c \in Digits -> "frac"
      [] s = "frac" /\ c \in Digits -> "frac"
      [] s \in {"int", "frac"} /\ c \in {"e", "E"} -> "e"
      [] s = "e" /\ c \in {"+", "-"} -> "esign"
      [] s \in {"e", "esign"} /\ c \in Digits -> "exp"
      [] s = "exp" /\ c \in Digits -> "exp"
      [] OTHER -> "dead"

\* The pattern without its exponent group.
DeltaNoExponent(s, c) ==
    IF c \in {"e", "E"} THEN "dead" ELSE Delta(s, c)

RECURSIVE RunPattern(_, _)
RunPattern(s, t) ==
    IF t = <<>> THEN s ELSE RunPattern(Delta(s, Head(t)), Tail(t))

RECURSIVE RunPatternNoExponent(_, _)
RunPatternNoExponent(s, t) ==
    IF t = <<>> THEN s
    ELSE RunPatternNoExponent(DeltaNoExponent(s, Head(t)), Tail(t))

_num_pattern_NoExponent(t) ==
    RunPatternNoExponent("start", t) \in {"int", "frac"}

\* _num_pattern.match(t)
_num_pattern(t) == RunPattern("start", t) \in {"int", "frac", "exp"}

(***************************************************************************)
(* Numbers.                                                                *)
(***************************************************************************)
RECURSIVE Norm(_, _)
Norm(m, e) ==
    IF m = 0 THEN [m |-> 0, e |-> 0]
    ELSE IF m % 10 = 0 THEN Norm(m \div 10, e + 1)
    ELSE [m |-> m, e |-> e]

\* A Python literal of the DEFAULTS table: an int (29) or a float (122.5),
\* written digits * 10^e.
IntLit(n) == [int |-> TRUE, m |-> n, e |-> 0]
FloatLit(m, e) == [int |-> FALSE, m |-> m, e |-> e]

\* float(default)
FloatOf(v) == Norm(v.m, v.e)

\* float(t) for a text the pattern accepts: one scan, left to right.
ScanInit ==
    [neg |-> FALSE, m |-> 0, scale |-> 0, infrac |-> FALSE,
     inexp |-> FALSE, eneg |-> FALSE, ex |-> 0]

ScanStep(a, c) ==
    CASE c \in Digits /\ ~a.inexp ->
            [a EXCEPT !.m = a.m * 10 + DigitVal(c),
                      !.scale = IF a.infrac THEN a.scale + 1 ELSE a.scale]
      [] c \in Digits /\ a.inexp -> [a EXCEPT !.ex = a.ex * 10 + DigitVal(c)]
      [] c = "." -> [a EXCEPT !.infrac = TRUE]
      [] c \in {"e", "E"} -> [a EXCEPT !.inexp = TRUE]
      [] c = "-" /\ ~a.inexp -> [a EXCEPT !.neg = TRUE]
      [] c = "-" /\ a.inexp -> [a EXCEPT !.eneg = TRUE]
      [] OTHER -> a

RECURSIVE Scan(_, _)
Scan(a, t) == IF t = <<>> THEN a ELSE Scan(ScanStep(a, Head(t)), Tail(t))

PyFloat(t) ==
    LET a == Scan(ScanInit, t)
    IN  Norm(IF a.neg THEN 0 - a.m ELSE a.m,
             (IF a.eneg THEN 0 - a.ex ELSE a.ex) - a.scale)

\* float(t) raises for no text the pattern accepts.
FloatRaises(t) == FALSE

(***************************************************************************)
(* str(v) of a DEFAULTS literal: the digits of an int; the shortest        *)
(* repr of a float, which has a point and at least one digit after it.     *)
(***************************************************************************)
RECURSIVE NatDigits(_)
NatDigits(n) ==
    IF n < 10 THEN <<DigitChar(n)>>
    ELSE Append(NatDigits(n \div 10), DigitChar(n % 10))

RECURSIVE Zeros(_)
Zeros(n) == IF n <= 0 THEN <<>> ELSE <<"0">> \o Zeros(n - 1)

PyStrFloat(x) ==
    LET ds   == NatDigits(IF x.m < 0 THEN 0 - x.m ELSE x.m)
        sign == IF x.m < 0 THEN <<"-">> ELSE <<>>
    IN  IF x.e >= 0
        THEN sign \o ds \o Zeros(x.e) \o <<".", "0">>
        ELSE LET k   == 0 - x.e
                 pad == Zeros(k + 1 - Len(ds)) \o ds
             IN  sign \o SubSeq(pad, 1, Len(pad) - k) \o <<".">>
                      \o SubSeq(pad, Len(pad) - k + 1, Len(pad))

PyStr(v) ==
    IF v.int
    THEN (IF v.m < 0 THEN <<"-">> ELSE <<>>)
            \o NatDigits(IF v.m < 0 THEN 0 - v.m ELSE v.m)
    ELSE PyStrFloat(FloatOf(v))

(***************************************************************************)
(* The fixed tables.                                                       *)
(***************************************************************************)
COLUMN_MAPPING ==
    ("SB" :> "SBP") @@ ("DB" :> "DBP") @@ ("T" :> "Temp") @@
    ("score1" :> "APS III") @@ ("score2" :> "WBC") @@ ("score6" :> "PLT") @@
    ("score7" :> "AG") @@ ("score8" :> "HCO3-") @@ ("SC1" :> "RDW") @@
    ("Na" :> "Na+") @@ ("BUN" :> "BUN") @@ ("Cre" :> "Creatinine") @@
    ("Lac" :> "Lac")

DEFAULTS ==
    ("SBP" :> FloatLit(1225, -1)) @@ ("DBP" :> FloatLit(848, -1)) @@
    ("APS III" :> IntLit(29)) @@ ("WBC" :> FloatLit(79, -1)) @@
    ("PLT" :> FloatLit(1654, -1)) @@ ("AG" :> IntLit(9)) @@
    ("HCO3-" :> IntLit(21)) @@ ("RDW" :> FloatLit(153, -1)) @@
    ("Na+" :> FloatLit(1373, -1)) @@ ("BUN" :> FloatLit(147, -1)) @@
    ("Temp" :> FloatLit(370, -1)) @@ ("Lac" :> FloatLit(9, -1)) @@
    ("Creatinine" :> FloatLit(9, -1))

\* dict.get(k, dflt)
DictGet(d, k, dflt) == IF k \in DOMAIN d THEN d[k] ELSE dflt

\* DEFAULTS.get(feat, 0)
DefaultOf(feat) == DictGet(DEFAULTS, feat, IntLit(0))

\* The raw names a persisted feature list is drawn from: a mapped name with
\* a float default, a mapped name with an int default, a name the mapping
\* and the catalog do not know, and a name that is already canonical.
RawNames == {"SB", "score1", "HR", "SBP"}

\* The raw names of the single-field forms whose text is enumerated.
ParseNames == {"SB", "score1", "HR"}

FeatureLists == UNION { [1..n -> RawNames] : n \in 0..MaxFeatures }

(***************************************************************************)
(* std_feature_list = [COLUMN_MAPPING.get(f, f) for f in feature_list]     *)
(***************************************************************************)
RECURSIVE NormalizeDropUnmapped(_)
NormalizeDropUnmapped(fl) ==
    IF fl = <<>> THEN <<>>
    ELSE (IF Head(fl) \in DOMAIN COLUMN_MAPPING
          THEN <<COLUMN_MAPPING[Head(fl)]>> ELSE <<>>)
         \o NormalizeDropUnmapped(Tail(fl))

RECURSIVE Normalize(_)
Normalize(fl) ==
    IF fl = <<>> THEN <<>>
    ELSE <<DictGet(COLUMN_MAPPING, Head(fl), Head(fl))>> \o Normalize(Tail(fl))

(***************************************************************************)
(* _to_float(text, default, name): the value returned and the warnings     *)
(* emitted.                                                                *)
(***************************************************************************)
Warning(name, t, default) == [name |-> name, text |-> t, default |-> default]

_to_float_ZeroOnInvalid(text, default, name) ==
    LET t == Strip(text)
    IN  IF _num_pattern(t)
        THEN [value |-> PyFloat(t), warnings |-> <<>>]
        ELSE [value |-> Norm(0, 0), warnings |-> <<>>]

_to_float(text, default, name) ==
    LET t == Strip(text)
    IN  IF _num_pattern(t)
        THEN IF FloatRaises(t)
             THEN [value |-> FloatOf(default),
                   warnings |-> <<Warning(name, t, default)>>]
             ELSE [value |-> PyFloat(t), warnings |-> <<>>]
        ELSE [value |-> FloatOf(default),
              warnings |-> <<Warning(name, t, default)>>]

(***************************************************************************)
(* A text_input widget: the text the session holds for it, or its initial  *)
(* value str(DEFAULTS.get(feat, 0)) when the user has not typed.           *)
(***************************************************************************)
Untouched == [typed |-> FALSE, text |-> <<>>]
Typed(t) == [typed |-> TRUE, text |-> t]

TextInput(w, feat) == IF w.typed THEN w.text ELSE PyStr(DefaultOf(feat))

\* Streamlit refuses a second widget identical to an earlier one: the index
\* of the first feature that repeats an earlier one, or 0.
FirstDuplicate(fl) ==
    LET dup == { i \in 1..Len(fl) : \E j \in 1..(i - 1) : fl[j] = fl[i] }
    IN  IF dup = {} THEN 0 ELSE CHOOSE i \in dup : \A k \in dup : i <= k

\* The loop of user_input_features over the first n features.
RECURSIVE ParseFields(_, _, _)
ParseFields(fl, w, n) ==
    IF n = 0 THEN [values |-> <<>>, warnings |-> <<>>]
    ELSE LET before == ParseFields(fl, w, n - 1)
             r == _to_float(TextInput(w[n], fl[n]), DefaultOf(fl[n]), fl[n])
         IN  [values |-> Append(before.values, r.value),
              warnings |-> before.warnings \o r.warnings]

\* pd.DataFrame([data], columns=cols).astype(float): one row.
DataFrame(cols, values) == [columns |-> cols, row |-> values]

NoFrame == DataFrame(<<>>, <<>>)

Lookup(df, c) ==
    df.row[CHOOSE j \in 1..Len(df.columns) : df.columns[j] = c]

SelectColumnsReversed(df, cols) ==
    DataFrame([j \in 1..Len(cols) |-> cols[Len(cols) + 1 - j]],
              [j \in 1..Len(cols) |-> Lookup(df, cols[Len(cols) + 1 - j])])

\* input_df[std_feature_list]
SelectColumns(df, cols) ==
    DataFrame(cols, [j \in 1..Len(cols) |-> Lookup(df, cols[j])])

\* missing = [c for c in std_feature_list if c not in input_df.columns]
Missing(cols, df) ==
    SelectSeq(cols, LAMBDA c : \A j \in 1..Len(df.columns) : df.columns[j] # c)

(***************************************************************************)
(* The attribution engine: for a two-class model either a list of two      *)
(* class-wise arrays with a two-entry expected value, or one array of the  *)
(* positive class with a scalar expected value.  An attribution is named   *)
(* by its class and its column.                                            *)
(***************************************************************************)
Shapes == {"list", "array"}

ClassRow(class, df) ==
    [j \in 1..Len(df.columns) |-> [class |-> class, feature |-> df.columns[j]]]

EngineShapValues(shape, df) ==
    IF shape = "list"
    THEN [islist |-> TRUE,
          v |-> << <<ClassRow("neg", df)>>, <<ClassRow("pos", df)>> >>]
    ELSE [islist |-> FALSE, v |-> <<ClassRow("pos", df)>>]

\* np.ravel(explainer.expected_value)
EngineExpectedValue(shape) ==
    IF shape = "list" THEN <<"base_neg", "base_pos">> ELSE <<"base_pos">>

SvVecFirstClass(sv) == IF sv.islist THEN sv.v[1][1] ELSE sv.v[1]

\* sv_vec: shap_values[-1][0] of a list, shap_values[0] of an array.
SvVec(sv) == IF sv.islist THEN sv.v[Len(sv.v)][1] ELSE sv.v[1]

\* base_val: the last / the first entry of the ravelled expected value.
BaseVal(sv, ev) == IF sv.islist THEN ev[Len(ev)] ELSE ev[1]

(***************************************************************************)
(* State.  features_pkl is the persisted feature list and widget the text  *)
(* the session holds for each field; both are fixed for a session.  The    *)
(* next group lives as long as the process, the last group is one script   *)
(* run.                                                                    *)
(***************************************************************************)
VARIABLES
    features_pkl, widget,
    runs, model_cache, features_cache, model_loads, feature_loads,
    explainer_builds, open_figs,
    model, feature_list, explainer, std_feature_list,
    pc, warnings, st_errors, exception, input_df, X, proba,
    predict_calls, shap_calls, shap_shape, sv_vec, base_val,
    fp_first, fp_alt, fp_calls, fig, pdf_bytes,
    figure_shown, download_shown

session == <<features_pkl, widget>>
process == <<runs, model_cache, features_cache, model_loads, feature_loads,
             explainer_builds, open_figs>>
globals == <<model, feature_list, explainer, std_feature_list>>
request == <<pc, warnings, st_errors, exception, input_df, X, proba,
             predict_calls, shap_calls, shap_shape, sv_vec, base_val,
             fp_first, fp_alt, fp_calls, fig, pdf_bytes,
             figure_shown, download_shown>>
vars == <<session, process, globals, request>>

\* A cache of st.cache_resource before its first call.
EmptyCache == [hit |-> FALSE, value |-> <<>>]

\* The process has started and no script run has begun.
Fresh ==
    /\ runs = 0
    /\ model_cache = EmptyCache /\ features_cache = EmptyCache
    /\ model_loads = 0 /\ feature_loads = 0 /\ explainer_builds = 0
    /\ open_figs = 0
    /\ model = 0 /\ feature_list = <<>> /\ explainer = 0
    /\ std_feature_list = <<>>
    /\ pc = "idle" /\ warnings = <<>> /\ st_errors = <<>>
    /\ exception = "none" /\ input_df = NoFrame /\ X = NoFrame
    /\ proba = "none" /\ predict_calls = <<>> /\ shap_calls = <<>>
    /\ shap_shape = "none" /\ sv_vec = <<>> /\ base_val = "none"
    /\ fp_first = "none" /\ fp_alt = "none" /\ fp_calls = 0
    /\ fig = "none" /\ pdf_bytes = "none"
    /\ figure_shown = FALSE /\ download_shown = FALSE

WidgetStates(n, texts) == [1..n -> {Untouched} \cup { Typed(t) : t \in texts }]

\* Forms of up to MaxFeatures fields holding the texts of WidgetTexts.
Init ==
    /\ features_pkl \in FeatureLists
    /\ widget \in WidgetStates(Len(features_pkl), WidgetTexts)
    /\ Fresh

\* Forms of one field: every catalog feature with its field untouched, and
\* the features of ParseNames with every text of Texts.
InitParse ==
    /\ features_pkl \in { <<r>> : r \in DOMAIN COLUMN_MAPPING \cup ParseNames }
    /\ widget \in WidgetStates(1, IF features_pkl[1] \in ParseNames
                                  THEN Texts ELSE {})
    /\ Fresh

(***************************************************************************)
(* An exception not caught by the script ends the run.                     *)
(***************************************************************************)
ContinueAnyway(ok, next) == next

Proceed(ok, next) == IF ok THEN next ELSE "aborted"

Raised(ok, what) == IF ok THEN "none" ELSE what

(***************************************************************************)
(* Lines 59-78: the top of the script.  load_model and load_features are   *)
(* cached by st.cache_resource; the explainer is built by every run.       *)
(***************************************************************************)
StartRun ==
    /\ pc \in {"idle", "done", "aborted"}
    /\ runs < MaxRuns
    /\ runs' = runs + 1
    /\ model_loads' = IF model_cache.hit THEN model_loads ELSE model_loads + 1
    /\ model_cache' = IF model_cache.hit THEN model_cache
                      ELSE [hit |-> TRUE, value |-> model_loads + 1]
    /\ model' = model_cache'.value
    /\ feature_loads' = IF features_cache.hit THEN feature_loads
                        ELSE feature_loads + 1
    /\ features_cache' = IF features_cache.hit THEN features_cache
                         ELSE [hit |-> TRUE, value |-> features_pkl]
    /\ feature_list' = features_cache'.value
    /\ explainer_builds' = explainer_builds + 1
    /\ explainer' = explainer_builds + 1
    /\ std_feature_list' = Normalize(feature_list')
    /\ pc' = "input"
    /\ warnings' = <<>> /\ st_errors' = <<>> /\ exception' = "none"
    /\ input_df' = NoFrame /\ X' = NoFrame /\ proba' = "none"
    /\ predict_calls' = <<>> /\ shap_calls' = <<>>
    /\ shap_shape' = "none" /\ sv_vec' = <<>> /\ base_val' = "none"
    /\ fp_first' = "none" /\ fp_alt' = "none" /\ fp_calls' = 0
    /\ fig' = "none" /\ pdf_bytes' = "none"
    /\ figure_shown' = FALSE /\ download_shown' = FALSE
    /\ UNCHANGED <<session, open_figs>>

(***************************************************************************)
(* Lines 121-135 (called at 272): user_input_features.                     *)
(***************************************************************************)
user_input_features ==
    /\ pc = "input"
    /\ LET d == FirstDuplicate(std_feature_list)
           n == IF d = 0 THEN Len(std_feature_list) ELSE d - 1
           r == ParseFields(std_feature_list, widget, n)
           data == [f \in { std_feature_list[i] : i \in 1..n } |->
                      r.values[CHOOSE i \in 1..n : std_feature_list[i] = f]]
       IN  /\ warnings' = r.warnings
           /\ IF d # 0
              THEN /\ exception' = "DuplicateWidgetID"
                   /\ input_df' = NoFrame
                   /\ pc' = "aborted"
              ELSE /\ exception' = "none"
                   /\ input_df' = DataFrame(std_feature_list,
                          [j \in 1..n |-> data[std_feature_list[j]]])
                   /\ pc' = "check"
    /\ UNCHANGED <<session, process, globals, st_errors, X, proba,
                   predict_calls, shap_calls, shap_shape, sv_vec, base_val,
                   fp_first, fp_alt, fp_calls, fig, pdf_bytes,
                   figure_shown, download_shown>>

(***************************************************************************)
(* Lines 275-280: the missing-feature check and the button.                *)
(***************************************************************************)
MissingCheck ==
    /\ pc = "check"
    /\ IF Missing(std_feature_list, input_df) # <<>>
       THEN /\ st_errors' = <<"Missing required features">>
            /\ pc' = "done"
            /\ X' = X
       ELSE /\ st_errors' = st_errors
            /\ \E pressed \in BOOLEAN :
                 IF pressed
                 THEN /\ X' = SelectColumns(input_df, std_feature_list)
                      /\ pc' = "predict"
                 ELSE /\ X' = X
                      /\ pc' = "done"
    /\ UNCHANGED <<session, process, globals, warnings, exception, input_df,
                   proba, predict_calls, shap_calls, shap_shape,
                   sv_vec, base_val,
                   fp_first, fp_alt, fp_calls, fig, pdf_bytes,
                   figure_shown, download_shown>>

(***************************************************************************)
(* Line 282: model.predict_proba(X).  The call may raise; a frame with no  *)
(* column is always refused by the fitted classifier.                      *)
(***************************************************************************)
Predict ==
    /\ pc = "predict"
    /\ \E ok \in (IF X.columns = <<>> THEN {FALSE} ELSE BOOLEAN) :
         /\ predict_calls' = Append(predict_calls, X)
         /\ proba' = IF ok THEN "proba" ELSE "none"
         /\ exception' = Raised(ok, "predict_proba")
         /\ pc' = Proceed(ok, "shap")
    /\ UNCHANGED <<session, process, globals, warnings, st_errors, input_df,
                   X, shap_calls, shap_shape,
                   sv_vec, base_val, fp_first, fp_alt,
                   fp_calls, fig, pdf_bytes, figure_shown, download_shown>>

(***************************************************************************)
(* Lines 145-165: explainer.shap_values(X) and the shape branch.           *)
(***************************************************************************)
ShapValues ==
    /\ pc = "shap"
    /\ \E ok \in BOOLEAN, shape \in Shapes :
         LET sv == EngineShapValues(shape, X)
             ev == EngineExpectedValue(shape)
         IN  /\ shap_calls' = Append(shap_calls, X)
             /\ shap_shape' = IF ok THEN shape ELSE "none"
             /\ sv_vec' = IF ok THEN SvVec(sv) ELSE <<>>
             /\ base_val' = IF ok THEN BaseVal(sv, ev) ELSE "none"
             /\ exception' = Raised(ok, "shap_values")
             /\ pc' = Proceed(ok, "figure")
    /\ UNCHANGED <<session, process, globals, warnings, st_errors, input_df,
                   X, proba, predict_calls, fp_first, fp_alt, fp_calls, fig,
                   pdf_bytes, figure_shown, download_shown>>

(***************************************************************************)
(* Lines 168-240: plt.figure and the text panels.  pyplot keeps the figure *)
(* registered until plt.close.                                             *)
(***************************************************************************)
CreateFigure ==
    /\ pc = "figure"
    /\ fig' = "open"
    /\ open_figs' = open_figs + 1
    /\ pc' = "force_plot"
    /\ UNCHANGED <<session, runs, model_cache, features_cache, model_loads,
                   feature_loads, explainer_builds, globals, warnings,
                   st_errors, exception, input_df, X, proba, predict_calls,
                   shap_calls, shap_shape,
                   sv_vec, base_val, fp_first, fp_alt, fp_calls,
                   pdf_bytes, figure_shown, download_shown>>

(***************************************************************************)
(* Lines 241-261: shap.force_plot with ax=, and on TypeError the call      *)
(* without ax.                                                             *)
(***************************************************************************)
Outcomes == {"ok", "TypeError", "Error"}

AfterFirstCallCatchAll(outcome) ==
    IF outcome = "ok" THEN "pdf" ELSE "fallback"

\* try: force_plot(..., ax=ax_shap)  except TypeError:
AfterFirstCall(outcome) ==
    CASE outcome = "ok" -> "pdf"
      [] outcome = "TypeError" -> "fallback"
      [] OTHER -> "aborted"

ForcePlot ==
    /\ pc = "force_plot"
    /\ \E outcome \in Outcomes :
         /\ fp_first' = outcome
         /\ fp_calls' = fp_calls + 1
         /\ pc' = AfterFirstCall(outcome)
         /\ exception' = IF pc' = "aborted" THEN "force_plot" ELSE "none"
    /\ UNCHANGED <<session, process, globals, warnings, st_errors, input_df,
                   X, proba, predict_calls, shap_calls, shap_shape,
                   sv_vec, base_val,
                   fp_alt, fig, pdf_bytes, figure_shown, download_shown>>

ForcePlotFallback ==
    /\ pc = "fallback"
    /\ \E outcome \in Outcomes :
         /\ fp_alt' = outcome
         /\ fp_calls' = fp_calls + 1
         /\ pc' = Proceed(outcome = "ok", "pdf")
         /\ exception' = Raised(outcome = "ok", "force_plot_fallback")
    /\ UNCHANGED <<session, process, globals, warnings, st_errors, input_df,
                   X, proba, predict_calls, shap_calls, shap_shape,
                   sv_vec, base_val,
                   fp_first, fig, pdf_bytes, figure_shown, download_shown>>

(***************************************************************************)
(* Lines 264-269: the PDF written into a BytesIO; the function returns.    *)
(***************************************************************************)
ExportPdf ==
    /\ pc = "pdf"
    /\ \E ok \in BOOLEAN :
         /\ pdf_bytes' = IF ok THEN "pdf" ELSE "none"
         /\ exception' = Raised(ok, "savefig")
         /\ pc' = Proceed(ok, "show")
    /\ UNCHANGED <<session, process, globals, warnings, st_errors, input_df,
                   X, proba, predict_calls, shap_calls, shap_shape,
                   sv_vec, base_val,
                   fp_first, fp_alt, fp_calls, fig, figure_shown,
                   download_shown>>

(***************************************************************************)
(* Line 286: st.pyplot(fig).                                               *)
(***************************************************************************)
ShowFigure ==
    /\ pc = "show"
    /\ \E ok \in BOOLEAN :
         /\ figure_shown' = ok
         /\ exception' = Raised(ok, "st.pyplot")
         /\ pc' = Proceed(ok, "download")
    /\ UNCHANGED <<session, process, globals, warnings, st_errors, input_df,
                   X, proba, predict_calls, shap_calls, shap_shape,
                   sv_vec, base_val,
                   fp_first, fp_alt, fp_calls, fig, pdf_bytes,
                   download_shown>>

(***************************************************************************)
(* Lines 289-295: st.download_button.                                      *)
(***************************************************************************)
DownloadButton ==
    /\ pc = "download"
    /\ \E ok \in BOOLEAN :
         /\ download_shown' = ok
         /\ exception' = Raised(ok, "st.download_button")
         /\ pc' = Proceed(ok, "close")
    /\ UNCHANGED <<session, process, globals, warnings, st_errors, input_df,
                   X, proba, predict_calls, shap_calls, shap_shape,
                   sv_vec, base_val,
                   fp_first, fp_alt, fp_calls, fig, pdf_bytes, figure_shown>>

(***************************************************************************)
(* Line 298: plt.close(fig).                                               *)
(***************************************************************************)
CloseFigure ==
    /\ pc = "close"
    /\ fig' = "closed"
    /\ open_figs' = open_figs - 1
    /\ pc' = "done"
    /\ UNCHANGED <<session, runs, model_cache, features_cache, model_loads,
                   feature_loads, explainer_builds, globals, warnings,
                   st_errors, exception, input_df, X, proba, predict_calls,
                   shap_calls, shap_shape,
                   sv_vec, base_val, fp_first, fp_alt, fp_calls,
                   pdf_bytes, figure_shown, download_shown>>

Next ==
    \/ StartRun
    \/ user_input_features
    \/ MissingCheck
    \/ Predict
    \/ ShapValues
    \/ CreateFigure
    \/ ForcePlot
    \/ ForcePlotFallback
    \/ ExportPdf
    \/ ShowFigure
    \/ DownloadButton
    \/ CloseFigure

Spec == Init /\ [][Next]_vars

ParseSpec == InitParse /\ [][Next]_vars

(***************************************************************************)
(* Vocabulary of the properties.                                           *)
(***************************************************************************)
Fields == 1..Len(std_feature_list)

\* The text field i hands to _to_float.
FieldText(i) == TextInput(widget[i], std_feature_list[i])

\* user_input_features has returned in the current run.
Returned == pc \notin {"idle", "input"} /\ exception # "DuplicateWidgetID"

WarningsNaming(f) == { k \in 1..Len(warnings) : warnings[k].name = f }

DefaultFloat(i) == FloatOf(DefaultOf(std_feature_list[i]))

\* The number a text of the grammar denotes, read off its parts: sign,
\* digits, digits after the point, exponent.
RECURSIVE Pow10(_)
Pow10(n) == IF n = 0 THEN 1 ELSE 10 * Pow10(n - 1)

Positions(t, cs) == { k \in 1..Len(t) : t[k] \in cs }

DigitSum(t) ==
    LET ds == SelectSeq(t, LAMBDA c : c \in Digits)
        f[k \in 0..Len(ds)] ==
            IF k = 0 THEN 0
            ELSE f[k - 1] + DigitVal(ds[k]) * Pow10(Len(ds) - k)
    IN  f[Len(ds)]

\* The numeric-literal grammar as the specification words it: an optional
\* sign, digits with an optional decimal point, an optional exponent.
AllIn(t, cs) == \A k \in 1..Len(t) : t[k] \in cs

Unsigned(t) == IF t # <<>> /\ t[1] \in {"+", "-"} THEN Tail(t) ELSE t

IsMantissa(t) ==
    /\ AllIn(t, Digits \cup {"."})
    /\ Cardinality(Positions(t, {"."})) <= 1
    /\ Positions(t, Digits) # {}

IsExponent(t) == Unsigned(t) # <<>> /\ AllIn(Unsigned(t), Digits)

Grammar(t) ==
    LET u  == Unsigned(t)
        es == Positions(u, {"e", "E"})
    IN  IF es = {} THEN IsMantissa(u)
        ELSE LET k == CHOOSE x \in es : \A y \in es : x <= y
             IN  /\ IsMantissa(SubSeq(u, 1, k - 1))
                 /\ IsExponent(SubSeq(u, k + 1, Len(u)))

Denotes(t) ==
    LET es    == Positions(t, {"e", "E"})
        epos  == IF es = {} THEN Len(t) + 1 ELSE CHOOSE k \in es : TRUE
        mant  == SubSeq(t, 1, epos - 1)
        expo  == SubSeq(t, epos + 1, Len(t))
        dots  == Positions(mant, {"."})
        nfrac == IF dots = {} THEN 0
                 ELSE Len(mant) - (CHOOSE k \in dots : TRUE)
        msign == IF Positions(mant, {"-"}) = {} THEN 1 ELSE -1
        esign == IF Positions(expo, {"-"}) = {} THEN 1 ELSE -1
    IN  Norm(msign * DigitSum(mant), esign * DigitSum(expo) - nfrac)

(***************************************************************************)
(* C1.  The normalized list has the length of the loaded feature list, and *)
(* at every position holds the mapped name when the raw name is a key of   *)
(* COLUMN_MAPPING and the raw name itself otherwise; this for the empty    *)
(* list, for unmapped names and for repeated names.                        *)
(***************************************************************************)
C1_NormalizedListMirrorsInput ==
    /\ runs > 0 => feature_list = features_pkl
    /\ Len(std_feature_list) = Len(feature_list)
    /\ \A i \in 1..Len(feature_list) :
         std_feature_list[i] =
            IF feature_list[i] \in DOMAIN COLUMN_MAPPING
            THEN COLUMN_MAPPING[feature_list[i]]
            ELSE feature_list[i]

C1_Witness ==
    /\ runs > 0
    /\ Len(feature_list) = 2
    /\ feature_list[1] \notin DOMAIN COLUMN_MAPPING
    /\ feature_list[2] \in DOMAIN COLUMN_MAPPING
    /\ std_feature_list[2] # feature_list[2]

(***************************************************************************)
(* C2 as stated.  Every field whose text does not match the numeric        *)
(* grammar gets the feature's default as its value, with exactly one       *)
(* warning naming the feature, and the classifier is called with that      *)
(* default.                                                                *)
(***************************************************************************)
C2_AsStated ==
    Returned =>
      \A i \in Fields :
        ~Grammar(FieldText(i)) =>
          /\ input_df.row[i] = DefaultFloat(i)
          /\ Cardinality(WarningsNaming(std_feature_list[i])) = 1
          /\ \A k \in 1..Len(predict_calls) :
               predict_calls[k].row[i] = DefaultFloat(i)

(***************************************************************************)
(* C2 amended.  Every field whose text, with leading and trailing          *)
(* whitespace removed, does not match the numeric grammar gets the         *)
(* feature's default as its value, with exactly one warning naming the     *)
(* feature, and the classifier is called with that default.                *)
(***************************************************************************)
C2_MalformedTextFallsBack ==
    Returned =>
      \A i \in Fields :
        ~Grammar(Strip(FieldText(i))) =>
          /\ input_df.row[i] = DefaultFloat(i)
          /\ Cardinality(WarningsNaming(std_feature_list[i])) = 1
          /\ \A k \in 1..Len(predict_calls) :
               predict_calls[k].row[i] = DefaultFloat(i)

C2_Witness ==
    /\ Returned
    /\ \E i \in Fields : ~Grammar(Strip(FieldText(i)))
    /\ Len(predict_calls) = 1
    /\ proba # "none"

(***************************************************************************)
(* C3.  Every field whose text matches the numeric grammar gets exactly    *)
(* the number the text denotes and no warning; "1e2" gives 100; and an     *)
(* untouched field, whose text is the string form of the feature's         *)
(* default, gives that default with no warning.                            *)
(***************************************************************************)
C3_ValidTextParsesExactly ==
    Returned =>
      \A i \in Fields :
        /\ Grammar(FieldText(i)) =>
             /\ input_df.row[i] = Denotes(FieldText(i))
             /\ WarningsNaming(std_feature_list[i]) = {}
        /\ FieldText(i) = <<"1", "e", "2">> =>
             input_df.row[i] = [m |-> 1, e |-> 2]
        /\ ~widget[i].typed =>
             /\ FieldText(i) = PyStr(DefaultOf(std_feature_list[i]))
             /\ input_df.row[i] = DefaultFloat(i)
             /\ WarningsNaming(std_feature_list[i]) = {}

C3_Witness ==
    /\ Returned
    /\ Len(std_feature_list) = 1
    /\ widget[1] = Typed(<<"1", "e", "-", "3">>)
    /\ input_df.row[1] = [m |-> 1, e |-> -3]
    /\ warnings = <<>>

(***************************************************************************)
(* C4.  A required feature with no catalog entry and no user value never   *)
(* reaches the classifier with a default substituted for it: the request   *)
(* ends before the classifier is invoked.                                  *)
(***************************************************************************)
C4_MissingFeatureIsFatal ==
    \A i \in Fields :
      (std_feature_list[i] \notin DOMAIN DEFAULTS /\ ~widget[i].typed) =>
        predict_calls = <<>>

(***************************************************************************)
(* C5.  After shap_values returned, in either shape, the contribution      *)
(* vector holds the positive-class attribution of each column of X, one    *)
(* per column and in column order, and the baseline is the positive        *)
(* class's.                                                                *)
(***************************************************************************)
C5_PositiveClassSelected ==
    shap_shape # "none" =>
      /\ Len(sv_vec) = Len(X.columns)
      /\ \A j \in 1..Len(X.columns) :
           sv_vec[j] = [class |-> "pos", feature |-> X.columns[j]]
      /\ base_val = "base_pos"

C5_Witness ==
    /\ shap_shape = "list"
    /\ Len(sv_vec) = 2
    /\ pc = "figure"

(***************************************************************************)
(* C6.  force_plot is called at most twice in a run; the second call       *)
(* happens exactly when the first raised TypeError; a failure of the       *)
(* second call ends the run; any other error of the first call ends the    *)
(* run at once, without a second call.                                     *)
(***************************************************************************)
C6_RetryOnceOnTypeErrorOnly ==
    /\ fp_calls = (IF fp_first = "none" THEN 0 ELSE 1)
                  + (IF fp_alt = "none" THEN 0 ELSE 1)
    /\ fp_first = "TypeError" => (pc = "fallback" \/ fp_alt # "none")
    /\ fp_alt # "none" => fp_first = "TypeError"
    /\ fp_alt \in {"TypeError", "Error"} =>
         pc = "aborted" /\ exception = "force_plot_fallback"
    /\ fp_first = "Error" =>
         pc = "aborted" /\ exception = "force_plot" /\ fp_alt = "none"

C6_Witness ==
    /\ fp_first = "TypeError"
    /\ fp_alt = "ok"
    /\ fp_calls = 2
    /\ pc = "pdf"

(***************************************************************************)
(* C7.  The figure or the download button is on the page only when the     *)
(* classifier call, the attribution, the force plot and the PDF export of  *)
(* this run all succeeded; when one of them failed the run is aborted and  *)
(* neither is on the page.                                                 *)
(***************************************************************************)
PipelineFailures ==
    {"predict_proba", "shap_values", "force_plot", "force_plot_fallback",
     "savefig"}

C7_ResultOnlyAfterSuccess ==
    /\ (figure_shown \/ download_shown) =>
         /\ proba # "none"
         /\ shap_shape # "none"
         /\ (fp_first = "ok" \/ fp_alt = "ok")
         /\ pdf_bytes # "none"
    /\ exception \in PipelineFailures =>
         pc = "aborted" /\ ~figure_shown /\ ~download_shown

C7_Witness ==
    /\ exception = "savefig"
    /\ pc = "aborted"
    /\ proba # "none"
    /\ ~figure_shown /\ ~download_shown

(***************************************************************************)
(* C8.  Across the runs of one process the classifier, the feature list    *)
(* and the explainer are each constructed at most once.                    *)
(***************************************************************************)
C8_ConstructedAtMostOnce ==
    /\ model_loads <= 1
    /\ feature_loads <= 1
    /\ explainer_builds <= 1

(***************************************************************************)
(* C9.  The frame user_input_features returns has the columns of           *)
(* std_feature_list in its order, one float per column, the value parsed   *)
(* from that feature's field; and the frame passed to the classifier and   *)
(* to the explainer is that frame, unchanged.                              *)
(***************************************************************************)
C9_FeatureVectorMatchesList ==
    Returned =>
      /\ input_df.columns = std_feature_list
      /\ Len(input_df.row) = Len(std_feature_list)
      /\ \A j \in Fields :
           /\ input_df.row[j].m \in Int /\ input_df.row[j].e \in Int
           /\ input_df.row[j] =
                _to_float(FieldText(j), DefaultOf(std_feature_list[j]),
                         std_feature_list[j]).value
      /\ \A k \in 1..Len(predict_calls) : predict_calls[k] = input_df
      /\ \A k \in 1..Len(shap_calls) : shap_calls[k] = input_df

C9_Witness ==
    /\ Len(std_feature_list) = 2
    /\ widget[1].typed /\ ~widget[2].typed
    /\ Len(predict_calls) = 1
    /\ Len(shap_calls) = 1
    /\ shap_shape # "none"

(***************************************************************************)
(* C10.  When a run has ended, normally or by an error, no figure it       *)
(* created is still open.                                                  *)
(***************************************************************************)
C10_FigureReleasedOnEveryExit ==
    pc \in {"done", "aborted"} => (fig # "open" /\ open_figs = 0)

====
